---- MODULE Spec2Model ----
(***************************************************************************)
(* The DNS zone resource of the provider (resourceDNSZoneV2): its Create,  *)
(* Read, Update and Delete handlers, the polling they run through          *)
(* resource.StateChangeConf / resource.RetryContext, the backend they talk *)
(* to, and its importer; and the server and kubernetes resources of        *)
(* package viettelidc.  Time is counted in units of 100 ms.                *)
(***************************************************************************)
EXTENDS Integers, FiniteSets, Sequences, TLC

\* ------------------------------------------------------------------ bounds
MaxTimeout == 150
ShortTimeout == 40
MaxLen == 4

\* --------------------------------------------------------------- constants
Delay == 50
MinTimeout == 30
InitialWait == 1
MaxWait == 100
RetryMinTimeout == 5
refreshGracePeriod == 300

Timeouts == {ShortTimeout, MaxTimeout}
IDs == {"z1", "z2"}
AttrVals == {"a1", "a2"}
Tracked == {"email", "ttl", "masters", "description"}
Setups == {"ok", "client_err", "auth_err"}
Ops == {"create", "read", "update", "delete"}
\* the sets of fields an update request may have changed
ChangeSets == {{}, Tracked} \cup {{f} : f \in Tracked}

\* what the backend can answer to one HTTP request
Statuses == {"PENDING", "ACTIVE", "ERROR"}
ErrCodes == {"E401", "E404", "E409", "E429"}
GetResponses == Statuses \cup ErrCodes
CallResponses == {"none"} \cup ErrCodes

Min(S) == CHOOSE x \in S : \A y \in S : x <= y

\* ------------------------------------------------- helpers of the package
\* Retry Classifier: conflict and rate-limited are retryable, all else fatal
checkForRetryableError(err) == err \in {"E409", "E429"}

\* CheckDeleted: a 404 clears the ID and is no error, anything else is one
CheckDeleted(err) ==
  IF err = "E404" THEN [clear |-> TRUE, err |-> "none"]
                  ELSE [clear |-> FALSE, err |-> err]

\* dnsZoneV2RefreshFunc: a 404 is the state DELETED, other errors are errors
dnsZoneV2RefreshFunc(resp) ==
  IF resp = "E404" THEN [state |-> "DELETED", err |-> "none"]
  ELSE IF resp \in ErrCodes THEN [state |-> "", err |-> resp]
  ELSE [state |-> resp, err |-> "none"]

\* (mutant) Delete waits for what Create and Update wait for
Target_activeForAll(o) == {"ACTIVE"}

\* (mutant) PENDING counts as reached
Target_withPending(o) ==
  IF o = "delete" THEN {"DELETED"} ELSE {"ACTIVE", "PENDING"}

\* StateChangeConf.Target and .Pending of each handler
Target(o) == IF o = "delete" THEN {"DELETED"} ELSE {"ACTIVE"}
Pending(o) == IF o = "delete" THEN {"ACTIVE", "PENDING"} ELSE {"PENDING"}

\* one round of WaitForStateContext on a refresh result:
\* "done", "pending", or the error the wait ends with
RefreshOutcome(o, r) ==
  IF r.err # "none" THEN r.err
  ELSE IF r.state \in Target(o) THEN "done"
  ELSE IF r.state \in Pending(o) THEN "pending"
  ELSE "unexpected_state"

\* the back-off between two refreshes
NextWait(wait, minTimeout) ==
  LET w2 == wait * 2
  IN  IF w2 < minTimeout THEN minTimeout
      ELSE IF w2 > MaxWait THEN MaxWait ELSE w2

\* (mutant) every request counts as a change
changed_always(c) == TRUE

\* d.HasChange over the four fields Update looks at
changed(c) == c \cap Tracked # {}

\* (mutant) Create never waits for ACTIVE
CreateNext_noPoll(err, sk) ==
  IF err # "none" THEN "fail" ELSE "read"

\* (mutant) Create goes on after a failed zones.Create
CreateNext_ignoreErr(err, sk) ==
  IF sk THEN "read" ELSE "poll"

\* where each handler goes after its first client call
CreateNext(err, sk) ==
  IF err # "none" THEN "fail" ELSE IF sk THEN "read" ELSE "poll"

\* (mutant) Update polls whatever disable_status_check says
UpdateNext_alwaysPoll(c, err, sk) ==
  IF ~changed(c) THEN "noop"
  ELSE IF err # "none" THEN "fail" ELSE "poll"

UpdateNext(c, err, sk) ==
  IF ~changed(c) THEN "noop"
  ELSE IF err # "none" THEN "fail" ELSE IF sk THEN "read" ELSE "poll"

\* (mutant) Delete polls after a failed zones.Delete
DeleteNext_pollOnError(err, sk) ==
  IF sk THEN "done" ELSE "poll"

DeleteNext(err, sk) ==
  IF err # "none" THEN "checkdeleted" ELSE IF sk THEN "done" ELSE "poll"

\* (mutant) Read stores what it got before it looks at the error
ReadAttrs_beforeCheck(resp, a, old) == a

\* lines 201-216: Read sets the attributes only past the error return
ReadAttrs(resp, a, old) == IF resp \in ErrCodes THEN old ELSE a

\* RetryContext's return value: the function's last error wins over the wait's
RetryResult(rerr, waitErr) == IF rerr = "none" THEN waitErr ELSE rerr

\* the handler's variable err after the handler stored e in it: own is what
\* the handler stored, t and d are the type word and the data word the
\* variable holds, seen says that the handler has read a type word that is
\* not of its own store
Whole(e) == [own |-> e, t |-> e, d |-> e, seen |-> FALSE]

\* ------------------------------------------------------------------- state
VARIABLES
  op, pc, skip, chg, setup, timeout, ctxDone, \* the call and its inputs
  d_id, d_attrs, n_id,                        \* ResourceData, Create's n.ID
  diag, cause, diagId,                        \* returned diagnostics
  callErr,                                    \* error of the first client call
  now, stateConf, retryConf, resultErr,       \* clock, the two waits
  h_err,                                      \* Create's variable err
  mutCalls, reads, pollReads, classified,     \* client calls made by this call
  sawActive, sawGone, lastPollAt,             \* observations of the polling
  pollAfterReturn,
  fatalSeen, readAfterFatal, retrySeen, onlyPending, pendings,
  ctxSeenAt,                                  \* when ctx.Done() was taken
  returnedAt,                                 \* when the handler returned
  prevAbsentDelete,
  getErr,                                     \* error of Read's zones.Get
  pairing,                                    \* two calls are being compared
  trace,                                      \* answers to the polling Reads
  prev,                                       \* the polling of the call before
  imp_pc, imp_arg, imp_id, imp_project,       \* the importer and its record
  exited,                                     \* log.Fatal has ended the process
  r_pc, r_id, r_cfg, r_last, r_ret, r_live    \* server and kubernetes records

inputVars == <<op, skip, chg, setup, timeout>>
dVars == <<d_id, d_attrs, n_id>>
diagVars == <<diag, cause, diagId>>
countVars == <<mutCalls, reads, pollReads, classified>>
obsVars == <<sawActive, sawGone, lastPollAt, pollAfterReturn, fatalSeen,
             readAfterFatal, retrySeen, onlyPending, pendings, ctxSeenAt>>
zoneVars ==
  <<op, pc, skip, chg, setup, timeout, ctxDone, d_id, d_attrs, n_id,
    diag, cause, diagId, callErr, now, stateConf, retryConf, resultErr,
    h_err,
    mutCalls, reads, pollReads, classified, sawActive, sawGone, lastPollAt,
    pollAfterReturn, fatalSeen, readAfterFatal, retrySeen, onlyPending,
    pendings, ctxSeenAt, returnedAt, prevAbsentDelete, getErr,
    pairing, trace, prev>>
pairVars == <<pairing, trace, prev>>
importVars == <<imp_pc, imp_arg, imp_id, imp_project>>
resourceVars == <<exited, r_pc, r_id, r_cfg, r_last, r_ret, r_live>>
sideVars == <<importVars, resourceVars>>
vars == <<zoneVars, importVars, resourceVars>>

\* a wait that is not running
NoWait ==
  [m |-> "off", g |-> "off", timer |-> 0, wait |-> 0, deadline |-> 0,
   graceEnd |-> 0, cancel |-> FALSE]

\* a StateChangeConf whose WaitForStateContext starts at t0
NewWait(t0, delay, tmo) ==
  [m |-> "select", g |-> "delay", timer |-> t0 + delay, wait |-> 0,
   deadline |-> t0 + tmo, graceEnd |-> 0, cancel |-> FALSE]

\* no polling to compare with
NoPrev == [op |-> "none", timeout |-> 0, trace |-> <<>>, ok |-> FALSE, n |-> 0]

\* s is the beginning of t
IsPrefix(s, t) ==
  /\ Len(s) <= Len(t)
  /\ \A i \in 1..Len(s) : s[i] = t[i]

\* the provider is up and no handler has been called
InitCall ==
  /\ op = "none" /\ pc = "idle" /\ skip = FALSE /\ chg = {} /\ setup = "ok"
  /\ timeout = MaxTimeout /\ ctxDone = FALSE
  /\ d_id = "" /\ d_attrs = "a1" /\ n_id = ""
  /\ diag = "none" /\ cause = "none" /\ diagId = ""
  /\ callErr = "none"
  /\ now = 0 /\ stateConf = NoWait /\ retryConf = NoWait /\ resultErr = "none"
  /\ h_err = Whole("none")
  /\ mutCalls = 0 /\ reads = 0 /\ pollReads = 0 /\ classified = 0
  /\ sawActive = FALSE /\ sawGone = FALSE
  /\ lastPollAt = -1 /\ pollAfterReturn = FALSE
  /\ fatalSeen = FALSE /\ readAfterFatal = FALSE /\ retrySeen = FALSE
  /\ onlyPending = TRUE /\ pendings = 0
  /\ ctxSeenAt = -1 /\ returnedAt = -1
  /\ prevAbsentDelete = FALSE /\ getErr = "none"
  /\ trace = <<>> /\ prev = NoPrev

\* the two resources of package viettelidc
Kinds == {"server", "kubernetes"}

\* nothing is being imported
ImportIdle ==
  /\ imp_pc = "idle" /\ imp_arg = <<>> /\ imp_id = <<>> /\ imp_project = <<>>

\* no server and no kubernetes resource exists
ResourcesIdle ==
  /\ exited = FALSE
  /\ r_pc = [k \in Kinds |-> "idle"]
  /\ r_id = [k \in Kinds |-> ""]
  /\ r_cfg = [k \in Kinds |-> ""]
  /\ r_last = [k \in Kinds |-> "none"]
  /\ r_ret = [k \in Kinds |-> "none"]
  /\ r_live = [k \in Kinds |-> FALSE]

Init == InitCall /\ pairing = FALSE /\ ImportIdle /\ ResourcesIdle

\* the same, with the polling of each Update kept for the call after it
InitPair == InitCall /\ pairing = TRUE /\ ImportIdle /\ ResourcesIdle

\* the clock at the handler's return, kept until the next call
Stamp ==
  returnedAt' = IF pc' # "done" THEN -1
                ELSE IF pc = "done" THEN returnedAt ELSE now

GoroutineRunning(w) == w.g \in {"delay", "wait", "refresh", "f"}
Quiescent == ~GoroutineRunning(stateConf) /\ ~GoroutineRunning(retryConf)

\* the SDK calls one handler with a ResourceData and a context
Begin ==
  /\ pc = "idle"
  /\ \E o \in Ops, sk \in BOOLEAN, c \in ChangeSets, su \in Setups,
        t \in Timeouts, id \in IDs, a \in AttrVals :
       /\ o # "update" => c = {}
       /\ o = "read" => (sk = FALSE /\ t = MaxTimeout)
       /\ o = "create" => id = "z1"
       /\ op' = o /\ skip' = sk /\ setup' = su /\ chg' = c /\ timeout' = t
       /\ d_id' = IF o = "create" THEN "" ELSE id
       /\ d_attrs' = a
       /\ pc' = IF o = "read" THEN "read" ELSE "start"
  /\ UNCHANGED <<ctxDone, n_id, diagVars, callErr, now, stateConf, retryConf,
                 resultErr, h_err, countVars, obsVars, prevAbsentDelete,
                 getErr, pairVars, sideVars>>
  /\ Stamp

\* the handler has returned and its goroutines are gone: the SDK takes the
\* diagnostics and the ResourceData, and the next call starts afresh
Return ==
  /\ pc = "done"
  /\ Quiescent
  /\ pc' = "idle" /\ op' = "none"
  /\ getErr' = "none"
  /\ trace' = <<>>
  /\ prev' = IF pairing /\ op = "update" /\ pollReads > 0
             THEN [op |-> op, timeout |-> timeout, trace |-> trace,
                   ok |-> (diag # "wait"), n |-> pollReads]
             ELSE NoPrev
  /\ UNCHANGED <<pairing, sideVars>>
  /\ prevAbsentDelete' = (op = "delete" /\ callErr = "E404" /\ diag = "none")
  /\ skip' = FALSE /\ chg' = {} /\ setup' = "ok" /\ timeout' = MaxTimeout
  /\ d_id' = "" /\ d_attrs' = "a1" /\ n_id' = "" /\ ctxDone' = FALSE
  /\ diag' = "none" /\ cause' = "none" /\ diagId' = ""
  /\ callErr' = "none"
  /\ now' = 0 /\ stateConf' = NoWait /\ retryConf' = NoWait
  /\ resultErr' = "none" /\ h_err' = Whole("none")
  /\ mutCalls' = 0 /\ reads' = 0 /\ pollReads' = 0 /\ classified' = 0
  /\ sawActive' = FALSE /\ sawGone' = FALSE
  /\ lastPollAt' = -1 /\ pollAfterReturn' = FALSE
  /\ fatalSeen' = FALSE /\ readAfterFatal' = FALSE /\ retrySeen' = FALSE
  /\ onlyPending' = TRUE /\ pendings' = 0 /\ ctxSeenAt' = -1
  /\ Stamp

\* the caller cancels the context of the call while it polls
Cancel ==
  /\ pc = "poll"
  /\ ~ctxDone
  /\ ctxDone' = TRUE
  /\ UNCHANGED <<op, pc, skip, chg, setup, timeout, d_id, d_attrs, n_id,
                 diag, cause, diagId, callErr, now, stateConf, retryConf,
                 resultErr,
                 h_err, mutCalls, reads, pollReads, classified, sawActive,
                 sawGone,
                 lastPollAt, pollAfterReturn, fatalSeen, readAfterFatal,
                 retrySeen, onlyPending, pendings, ctxSeenAt,
                 prevAbsentDelete,
                 getErr, pairVars, sideVars>>
  /\ Stamp

\* the ID a diagnostic's message names: the messages of lines 180, 264, 282
\* and 320 and those of CheckDeleted format d.Id(), the others name no ID
DiagId(kind, id) == IF kind \in {"client", "auth", "create"} THEN "" ELSE id

\* a handler returns a diagnostic
Fail(kind, why) ==
  /\ pc' = "done" /\ diag' = kind /\ cause' = why
  /\ diagId' = DiagId(kind, d_id)

\* line 170: resource.RetryContext returns and its result is stored in the
\* handler's variable err, which lines 179 and 181 read
CreateAfterRetry(err) ==
  /\ pc' = "check" /\ h_err' = Whole(err)
  /\ UNCHANGED <<diagVars, d_id>>

\* RetryContext has returned and the handler is between its store of line
\* 170 and its return, while the function handed to RetryContext still runs
Racing == retryConf.m = "ret" /\ pc \in {"check", "format"}

\* lines 171-174: the function handed to RetryContext stores the result err
\* of its wait in the handler's variable (171), tests it (172) and hands it
\* to the classifier (174).  While Racing nothing orders the handler's store
\* of line 170 with these steps, word by word.  A view says, for the type
\* word and the data word, whose store comes last ("c" the function's, "h"
\* the handler's: ft, fd) and which store each read of the function sees
\* (r172t, r174t, r174d).  The function sees the handler's word only where
\* the handler's store comes last, and never its own word again after it.
\* Otherwise the function reads what it stored, and h_err keeps what the
\* handler stored last: the handler's next access is its store of line 170.
ClosureViews ==
  IF Racing
  THEN {v \in [ft : {"c", "h"}, fd : {"c", "h"}, r172t : {"c", "h"},
                r174t : {"c", "h"}, r174d : {"c", "h"}] :
          /\ v.ft = "c" => (v.r172t = "c" /\ v.r174t = "c")
          /\ v.r172t = "h" => v.r174t = "h"
          /\ v.fd = "c" => v.r174d = "c"}
  ELSE {[ft |-> "c", fd |-> "c", r172t |-> "c", r174t |-> "c",
         r174d |-> "c"]}

\* the word a view selects: the function's (of err) or the handler's
WordOf(who, err, mine) == IF who = "c" THEN err ELSE mine

\* err != nil looks at the type word
NonNil(t) == t # "none"

\* the error an interface value of type word t and data word d reads as:
\* nil with a nil type word, "torn" when the words are of two errors
Text(t, d) ==
  IF t = "none" THEN "none" ELSE IF t = d THEN t ELSE "torn"

\* the inner WaitForState has returned err.  In Create that is the return of
\* the function handed to RetryContext (lines 170-177); in Update and Delete
\* the handler goes on (lines 280-286, 318-324).
AfterWait(err) ==
  IF op = "create"
  THEN \E v \in ClosureViews :
         LET t172 == WordOf(v.r172t, err, h_err.t)
             t174 == WordOf(v.r174t, err, h_err.t)
             d174 == WordOf(v.r174d, err, h_err.d)
             isErr == NonNil(t172)
             retry == checkForRetryableError(t174)
             rerr == IF isErr THEN Text(t174, d174) ELSE "none"
             fin == [h_err EXCEPT !.t = WordOf(v.ft, err, @),
                                  !.d = WordOf(v.fd, err, @)]
         IN  /\ resultErr' = rerr
             /\ classified' = IF isErr THEN classified + 1 ELSE classified
             /\ IF isErr /\ retry
                THEN /\ retryConf' =
                          [retryConf EXCEPT
                             !.g = "wait",
                             !.wait = NextWait(retryConf.wait, RetryMinTimeout),
                             !.timer =
                                now
                                + NextWait(retryConf.wait, RetryMinTimeout)]
                     /\ h_err' = IF Racing THEN fin ELSE h_err
                     /\ UNCHANGED <<pc, diagVars, d_id>>
                ELSE /\ retryConf' =
                          [retryConf EXCEPT
                             !.g = "exit",
                             !.m = IF @ \in {"select", "grace"}
                                   THEN "ret" ELSE @]
                     /\ IF retryConf.m \in {"select", "grace"}
                        THEN CreateAfterRetry(RetryResult(rerr, rerr))
                        ELSE /\ h_err' = IF Racing THEN fin ELSE h_err
                             /\ UNCHANGED <<pc, diagVars, d_id>>
  ELSE /\ UNCHANGED <<resultErr, classified, retryConf, d_id, h_err>>
       /\ IF err # "none" THEN Fail("wait", err)
          ELSE /\ pc' = IF op = "update" THEN "read" ELSE "done"
               /\ UNCHANGED diagVars

waitVars ==
  <<pc, diag, cause, diagId, d_id, retryConf, resultErr, classified, h_err>>

\* ---------------------------------------------------------------- handlers
resourceDNSZoneV2Create ==
  /\ op = "create" /\ pc = "start"
  /\ UNCHANGED <<inputVars, ctxDone, d_attrs, now, resultErr,
                 h_err, reads, pollReads,
                 classified, obsVars, prevAbsentDelete, stateConf,
                 getErr, pairVars, sideVars>>
  /\ IF setup # "ok"
     THEN /\ Fail(IF setup = "client_err" THEN "client" ELSE "auth", "setup")
          /\ UNCHANGED <<d_id, n_id, callErr, mutCalls, retryConf>>
     ELSE \E resp \in CallResponses, id \in IDs :
            /\ mutCalls' = mutCalls + 1
            /\ callErr' = resp
            /\ LET nxt == CreateNext(resp, skip)
               IN  IF nxt = "fail"
                   THEN /\ Fail("create", resp)
                        /\ UNCHANGED <<d_id, n_id, retryConf>>
                   ELSE IF nxt = "read"
                   THEN /\ n_id' = id /\ d_id' = id /\ pc' = "read"
                        /\ UNCHANGED <<diagVars, retryConf>>
                   ELSE /\ n_id' = id /\ pc' = "poll"
                        /\ retryConf' = NewWait(now, 0, timeout)
                        /\ UNCHANGED <<diagVars, d_id>>
  /\ Stamp

resourceDNSZoneV2Read ==
  /\ pc = "read"
  /\ UNCHANGED <<inputVars, ctxDone, n_id, callErr, now, stateConf, retryConf,
                 resultErr, h_err, mutCalls, pollReads, classified, obsVars,
                 prevAbsentDelete, pairVars, sideVars>>
  /\ IF setup # "ok"
     THEN /\ Fail(IF setup = "client_err" THEN "client" ELSE "auth", "setup")
          /\ UNCHANGED <<d_id, d_attrs, reads, getErr>>
     ELSE \E resp \in GetResponses, a \in AttrVals :
            /\ reads' = reads + 1
            /\ getErr' = IF resp \in ErrCodes THEN resp ELSE "none"
            /\ d_attrs' = ReadAttrs(resp, a, d_attrs)
            /\ IF resp \in ErrCodes
               THEN LET cd == CheckDeleted(resp)
                    IN  /\ d_id' = IF cd.clear THEN "" ELSE d_id
                        /\ IF cd.err = "none"
                           THEN pc' = "done" /\ UNCHANGED diagVars
                           ELSE Fail("read", cd.err)
               ELSE /\ pc' = "done"
                    /\ UNCHANGED <<diagVars, d_id>>
  /\ Stamp

resourceDNSZoneV2Update ==
  /\ op = "update" /\ pc = "start"
  /\ UNCHANGED <<inputVars, ctxDone, dVars, now, retryConf, resultErr,
                 h_err, reads,
                 pollReads, classified, obsVars, prevAbsentDelete,
                 getErr, pairVars, sideVars>>
  /\ IF setup = "client_err"
     THEN /\ Fail("client", "setup")
          /\ UNCHANGED <<callErr, mutCalls, stateConf>>
     ELSE IF UpdateNext(chg, "none", skip) = "noop"
     THEN /\ pc' = "read"
          /\ UNCHANGED <<diagVars, callErr, mutCalls, stateConf>>
     ELSE IF setup = "auth_err"
     THEN /\ Fail("auth", "setup")
          /\ UNCHANGED <<callErr, mutCalls, stateConf>>
     ELSE \E resp \in CallResponses :
            /\ mutCalls' = mutCalls + 1
            /\ callErr' = resp
            /\ LET nxt == UpdateNext(chg, resp, skip)
               IN  IF nxt = "fail"
                   THEN Fail("update", resp) /\ UNCHANGED stateConf
                   ELSE IF nxt = "poll"
                   THEN /\ pc' = "poll"
                        /\ stateConf' = NewWait(now, Delay, timeout)
                        /\ UNCHANGED diagVars
                   ELSE /\ pc' = "read"
                        /\ UNCHANGED <<diagVars, stateConf>>
  /\ Stamp

resourceDNSZoneV2Delete ==
  /\ op = "delete" /\ pc = "start"
  /\ UNCHANGED <<inputVars, ctxDone, d_attrs, n_id, now, retryConf, resultErr,
                 h_err,
                 reads, pollReads, classified, obsVars, prevAbsentDelete,
                 getErr, pairVars, sideVars>>
  /\ IF setup # "ok"
     THEN /\ Fail(IF setup = "client_err" THEN "client" ELSE "auth", "setup")
          /\ UNCHANGED <<d_id, callErr, mutCalls, stateConf>>
     ELSE \E resp \in CallResponses :
            /\ mutCalls' = mutCalls + 1
            /\ callErr' = resp
            /\ LET nxt == DeleteNext(resp, skip)
               IN  IF nxt = "checkdeleted"
                   THEN LET cd == CheckDeleted(resp)
                        IN  /\ d_id' = IF cd.clear THEN "" ELSE d_id
                            /\ UNCHANGED stateConf
                            /\ IF cd.err = "none"
                               THEN pc' = "done" /\ UNCHANGED diagVars
                               ELSE Fail("delete", cd.err)
                   ELSE IF nxt = "poll"
                   THEN /\ pc' = "poll"
                        /\ stateConf' = NewWait(now, Delay, timeout)
                        /\ UNCHANGED <<diagVars, d_id>>
                   ELSE /\ pc' = "done"
                        /\ UNCHANGED <<diagVars, d_id, stateConf>>
  /\ Stamp

\* the type words a read of the handler can yield: that of its own store,
\* or the one the function stored over it, and no older one after that
HandlerTypeWords == IF h_err.seen THEN {h_err.t} ELSE {h_err.own, h_err.t}

\* line 179: Create tests err, that is its type word
resourceDNSZoneV2Create_checkErr ==
  /\ op = "create" /\ pc = "check"
  /\ \E t \in HandlerTypeWords :
       /\ h_err' = [h_err EXCEPT !.seen = @ \/ t # h_err.own]
       /\ IF NonNil(t)
          THEN pc' = "format" /\ UNCHANGED d_id
          ELSE pc' = "read" /\ d_id' = n_id
  /\ UNCHANGED <<inputVars, ctxDone, d_attrs, n_id, diagVars, callErr, now,
                 stateConf, retryConf, resultErr, countVars, obsVars,
                 prevAbsentDelete, getErr, pairVars, sideVars>>
  /\ Stamp

\* lines 180-182: Create formats d.Id() and err, read once more word by
\* word, and returns the diagnostic; a nil err gives a diagnostic with no
\* cause
resourceDNSZoneV2Create_formatErr ==
  /\ op = "create" /\ pc = "format"
  /\ \E t \in HandlerTypeWords, d \in {h_err.own, h_err.d} :
       Fail("wait", Text(t, d))
  /\ UNCHANGED <<inputVars, ctxDone, dVars, callErr, now, stateConf,
                 retryConf, resultErr, h_err, countVars, obsVars,
                 prevAbsentDelete, getErr, pairVars, sideVars>>
  /\ Stamp

\* -------------------------------------- StateChangeConf.WaitForStateContext
\* Update and Delete hand their context to the wait; Create calls
\* WaitForState, which waits under context.Background()
UsesCtx == op # "create"

\* the refresh goroutine: the initial Delay has elapsed
WaitForState_Delay ==
  /\ stateConf.g = "delay" /\ ~stateConf.cancel /\ now >= stateConf.timer
  /\ stateConf' = [stateConf EXCEPT !.g = "wait", !.timer = now, !.wait = 0]
  /\ UNCHANGED <<inputVars, pc, ctxDone, dVars, diagVars, callErr, now,
                 retryConf, resultErr,
                 h_err, countVars, obsVars, prevAbsentDelete,
                 getErr, pairVars, sideVars>>
  /\ Stamp

\* the refresh goroutine: the wait is over, call conf.Refresh() (one GET)
WaitForState_Tick ==
  /\ stateConf.g = "wait" /\ now >= stateConf.timer
  /\ ~stateConf.cancel \/ stateConf.wait = 0
  /\ stateConf' = [stateConf EXCEPT
                     !.g = "refresh",
                     !.wait = IF @ = 0 THEN InitialWait ELSE @]
  /\ pollReads' = pollReads + 1
  /\ lastPollAt' = now
  /\ pollAfterReturn' = (pollAfterReturn \/ pc # "poll")
  /\ readAfterFatal' = (readAfterFatal \/ fatalSeen)
  /\ UNCHANGED <<inputVars, pc, ctxDone, dVars, diagVars, callErr, now,
                 retryConf, resultErr,
                 h_err, mutCalls, reads, classified, sawActive,
                 sawGone, fatalSeen, retrySeen, onlyPending, pendings,
                 ctxSeenAt,
                 prevAbsentDelete,
                 getErr, pairVars, sideVars>>
  /\ Stamp

\* the refresh goroutine: cancelCh is closed while it waits
WaitForState_Cancelled ==
  /\ stateConf.g \in {"delay", "wait"} /\ stateConf.cancel
  /\ stateConf' = [stateConf EXCEPT !.g = "exit"]
  /\ UNCHANGED <<inputVars, pc, ctxDone, dVars, diagVars, callErr, now,
                 retryConf, resultErr,
                 h_err, countVars, obsVars, prevAbsentDelete,
                 getErr, pairVars, sideVars>>
  /\ Stamp

\* conf.Refresh() returns and the result reaches the waiting caller
WaitForState_Refresh ==
  /\ stateConf.g = "refresh"
  /\ \E resp \in GetResponses :
       LET r == dnsZoneV2RefreshFunc(resp)
           out == RefreshOutcome(op, r)
           retryable == r.err # "none" /\ checkForRetryableError(r.err)
           alive == stateConf.m \in {"select", "grace"}
       IN  /\ sawActive' = (sawActive \/ resp = "ACTIVE")
           /\ sawGone' = (sawGone \/ resp = "E404")
           /\ retrySeen' = (retrySeen \/ retryable)
           /\ fatalSeen' =
                (fatalSeen \/ (out \notin {"done", "pending"} /\ ~retryable))
           /\ onlyPending' = (onlyPending /\ (out = "pending" \/ retryable))
           /\ pendings' =
                IF resp = "PENDING" THEN pendings + 1 ELSE pendings
           /\ trace' = IF pairing THEN Append(trace, resp) ELSE trace
           /\ IF out = "pending"
              THEN /\ stateConf' =
                        [stateConf EXCEPT
                           !.g = "wait",
                           !.wait = NextWait(stateConf.wait, MinTimeout),
                           !.timer = now + NextWait(stateConf.wait, MinTimeout)]
                   /\ UNCHANGED waitVars
              ELSE /\ stateConf' =
                        [stateConf EXCEPT
                           !.g = "exit",
                           !.m = IF alive THEN "ret" ELSE @]
                   /\ IF alive
                      THEN AfterWait(
                             IF out = "done" THEN "none"
                             ELSE IF stateConf.m = "grace" THEN "timeout"
                             ELSE out)
                      ELSE UNCHANGED waitVars
  /\ UNCHANGED <<inputVars, ctxDone, d_attrs, n_id, callErr, now, mutCalls,
                 reads, pollReads, lastPollAt, pollAfterReturn, readAfterFatal,
                 ctxSeenAt, prevAbsentDelete, getErr, pairing, prev,
                 sideVars>>
  /\ Stamp

\* the caller's select: conf.Timeout has passed, the grace period starts
WaitForState_Timeout ==
  /\ stateConf.m = "select" /\ now >= stateConf.deadline
  /\ stateConf' = [stateConf EXCEPT
                     !.m = "grace", !.cancel = TRUE,
                     !.graceEnd = now + refreshGracePeriod]
  /\ UNCHANGED <<inputVars, pc, ctxDone, dVars, diagVars, callErr, now,
                 retryConf, resultErr,
                 h_err, countVars, obsVars, prevAbsentDelete,
                 getErr, pairVars, sideVars>>
  /\ Stamp

\* the caller's grace period ends: the goroutine is gone, the period is
\* over, or the context is done; the wait returns a TimeoutError
WaitForState_GraceEnd ==
  /\ stateConf.m = "grace"
  /\ \/ stateConf.g = "exit"
     \/ now >= stateConf.graceEnd
     \/ UsesCtx /\ ctxDone
  /\ stateConf' = [stateConf EXCEPT !.m = "ret"]
  /\ AfterWait("timeout")
  /\ UNCHANGED <<inputVars, ctxDone, d_attrs, n_id, callErr, now, mutCalls,
                 reads, pollReads, obsVars, prevAbsentDelete,
                 getErr, pairVars, sideVars>>
  /\ Stamp

\* the caller's select: ctx.Done() fired, the wait returns ctx.Err()
WaitForState_CtxDone ==
  /\ stateConf.m = "select" /\ UsesCtx /\ ctxDone
  /\ stateConf' = [stateConf EXCEPT !.m = "ret", !.cancel = TRUE]
  /\ AfterWait("cancelled")
  /\ ctxSeenAt' = now
  /\ UNCHANGED <<inputVars, ctxDone, d_attrs, n_id, callErr, now, mutCalls,
                 reads, pollReads, sawActive, sawGone, lastPollAt,
                 pollAfterReturn, fatalSeen, readAfterFatal, retrySeen,
                 onlyPending, pendings, prevAbsentDelete,
                 getErr, pairVars, sideVars>>
  /\ Stamp

\* ------------------------------------------------- resource.RetryContext
\* (Create only) the wait whose Refresh runs the function of lines 170-177
RetryContext_Delay ==
  /\ retryConf.g = "delay" /\ ~retryConf.cancel /\ now >= retryConf.timer
  /\ retryConf' = [retryConf EXCEPT !.g = "wait", !.timer = now, !.wait = 0]
  /\ UNCHANGED <<inputVars, pc, ctxDone, dVars, diagVars, callErr, now,
                 stateConf, resultErr,
                 h_err, countVars, obsVars, prevAbsentDelete,
                 getErr, pairVars, sideVars>>
  /\ Stamp

\* the function is called: it builds nothing new but starts stateConf's wait
RetryContext_Tick ==
  /\ retryConf.g = "wait" /\ now >= retryConf.timer
  /\ ~retryConf.cancel \/ retryConf.wait = 0
  /\ retryConf' = [retryConf EXCEPT
                     !.g = "f",
                     !.wait = IF @ = 0 THEN InitialWait ELSE @]
  /\ stateConf' = NewWait(now, Delay, timeout)
  /\ UNCHANGED <<inputVars, pc, ctxDone, dVars, diagVars, callErr, now,
                 resultErr, h_err, countVars, obsVars, prevAbsentDelete,
                 getErr, pairVars, sideVars>>
  /\ Stamp

RetryContext_Cancelled ==
  /\ retryConf.g \in {"delay", "wait"} /\ retryConf.cancel
  /\ retryConf' = [retryConf EXCEPT !.g = "exit"]
  /\ UNCHANGED <<inputVars, pc, ctxDone, dVars, diagVars, callErr, now,
                 stateConf, resultErr,
                 h_err, countVars, obsVars, prevAbsentDelete,
                 getErr, pairVars, sideVars>>
  /\ Stamp

RetryContext_Timeout ==
  /\ retryConf.m = "select" /\ now >= retryConf.deadline
  /\ retryConf' = [retryConf EXCEPT
                     !.m = "grace", !.cancel = TRUE,
                     !.graceEnd = now + refreshGracePeriod]
  /\ UNCHANGED <<inputVars, pc, ctxDone, dVars, diagVars, callErr, now,
                 stateConf, resultErr,
                 h_err, countVars, obsVars, prevAbsentDelete,
                 getErr, pairVars, sideVars>>
  /\ Stamp

RetryContext_GraceEnd ==
  /\ retryConf.m = "grace"
  /\ \/ retryConf.g = "exit"
     \/ now >= retryConf.graceEnd
     \/ ctxDone
  /\ retryConf' = [retryConf EXCEPT !.m = "ret"]
  /\ CreateAfterRetry(RetryResult(resultErr, "timeout"))
  /\ UNCHANGED <<inputVars, ctxDone, d_attrs, n_id, callErr, now, stateConf,
                 resultErr, countVars, obsVars, prevAbsentDelete,
                 getErr, pairVars, sideVars>>
  /\ Stamp

RetryContext_CtxDone ==
  /\ retryConf.m = "select" /\ ctxDone
  /\ retryConf' = [retryConf EXCEPT !.m = "ret", !.cancel = TRUE]
  /\ CreateAfterRetry(RetryResult(resultErr, "cancelled"))
  /\ ctxSeenAt' = now
  /\ UNCHANGED <<inputVars, ctxDone, d_attrs, n_id, callErr, now, stateConf,
                 resultErr, countVars, sawActive, sawGone, lastPollAt,
                 pollAfterReturn, fatalSeen, readAfterFatal, retrySeen,
                 onlyPending, pendings, prevAbsentDelete,
                 getErr, pairVars, sideVars>>
  /\ Stamp

\* ------------------------------------------------------------------- clock
Timers(w) ==
  (IF w.g \in {"delay", "wait"} THEN {w.timer} ELSE {})
    \cup (IF w.m = "select" THEN {w.deadline} ELSE {})
    \cup (IF w.m = "grace" THEN {w.graceEnd} ELSE {})

\* something a goroutine does without waiting for the clock
Urgent(w, ctx) ==
  \/ \E t \in Timers(w) : t <= now
  \/ w.cancel /\ w.g \in {"delay", "wait"}
  \/ ctx /\ ctxDone /\ w.m \in {"select", "grace"}
  \/ w.m = "grace" /\ w.g = "exit"

\* time passes until the next timer fires
Advance ==
  /\ Timers(stateConf) \cup Timers(retryConf) # {}
  /\ ~Urgent(stateConf, UsesCtx) /\ ~Urgent(retryConf, TRUE)
  /\ pc \notin {"check", "format"}
  /\ now' = Min(Timers(stateConf) \cup Timers(retryConf))
  /\ UNCHANGED <<inputVars, pc, ctxDone, dVars, diagVars, callErr, stateConf,
                 retryConf, resultErr,
                 h_err, countVars, obsVars, prevAbsentDelete,
                 getErr, pairVars, sideVars>>
  /\ Stamp

Next ==
  \/ Begin
  \/ Return
  \/ Cancel
  \/ resourceDNSZoneV2Create
  \/ resourceDNSZoneV2Create_checkErr
  \/ resourceDNSZoneV2Create_formatErr
  \/ resourceDNSZoneV2Read
  \/ resourceDNSZoneV2Update
  \/ resourceDNSZoneV2Delete
  \/ WaitForState_Delay
  \/ WaitForState_Tick
  \/ WaitForState_Cancelled
  \/ WaitForState_Refresh
  \/ WaitForState_Timeout
  \/ WaitForState_GraceEnd
  \/ WaitForState_CtxDone
  \/ RetryContext_Delay
  \/ RetryContext_Tick
  \/ RetryContext_Cancelled
  \/ RetryContext_Timeout
  \/ RetryContext_GraceEnd
  \/ RetryContext_CtxDone
  \/ Advance

Spec == Init /\ [][Next]_vars

\* a Create or an Update that polls, with a working client
BeginPolled ==
  /\ Begin
  /\ op' \in {"create", "update"} /\ ~skip' /\ setup' = "ok"
  /\ op' = "update" => chg' # {}

\* time passes between two Reads, none while a Read is in flight
AdvanceBetweenReads ==
  /\ stateConf.g # "refresh"
  /\ Advance

\* Update and then Create polling with Reads that answer at once and no
\* cancellation
NextPair ==
  \/ BeginPolled
  \/ Return
  \/ resourceDNSZoneV2Create
  \/ resourceDNSZoneV2Create_checkErr
  \/ resourceDNSZoneV2Create_formatErr
  \/ resourceDNSZoneV2Read
  \/ resourceDNSZoneV2Update
  \/ WaitForState_Delay
  \/ WaitForState_Tick
  \/ WaitForState_Cancelled
  \/ WaitForState_Refresh
  \/ WaitForState_Timeout
  \/ WaitForState_GraceEnd
  \/ RetryContext_Delay
  \/ RetryContext_Tick
  \/ RetryContext_Cancelled
  \/ RetryContext_Timeout
  \/ RetryContext_GraceEnd
  \/ AdvanceBetweenReads

SpecPair == InitPair /\ [][NextPair]_vars

TypeOK ==
  /\ op \in Ops \cup {"none"}
  /\ pc \in {"idle", "start", "poll", "check", "format", "read", "done"}
  /\ d_id \in IDs \cup {""}
  /\ now \in Nat
  /\ pendings \in Nat /\ returnedAt \in Nat \cup {-1}
  /\ pairing \in BOOLEAN /\ trace \in Seq(GetResponses)
  /\ imp_pc \in {"idle", "called", "ok", "error"}
  /\ exited \in BOOLEAN
  /\ r_pc \in [Kinds -> {"idle", "http"}]
  /\ r_live \in [Kinds -> BOOLEAN]

\* ------------------------------------------------------------- the importer
\* import IDs are strings over a small alphabet, as sequences of characters
Chars == {"a", "b", ":"}
Strs == UNION {[1..n -> Chars] : n \in 0..MaxLen}

\* strings.Split(s, ":"): the pieces between the colons, "" gives one piece
RECURSIVE Split(_)
Split(s) ==
  IF s = <<>> THEN << <<>> >>
  ELSE LET rest == Split(Tail(s))
       IN  IF Head(s) = ":" THEN << <<>> >> \o rest
           ELSE << <<Head(s)>> \o Head(rest) >> \o Tail(rest)

\* terraform import: the SDK makes a record whose ID is the string given
ImportResourceState ==
  /\ imp_pc \in {"idle", "ok", "error"}
  /\ \E s \in Strs : imp_arg' = s /\ imp_id' = s
  /\ imp_project' = <<>>
  /\ imp_pc' = "called"
  /\ UNCHANGED <<zoneVars, resourceVars>>

\* lines 25-35: Importer.StateContext
StateContext ==
  /\ imp_pc = "called"
  /\ LET parts == Split(imp_id)
     IN  IF parts[1] = <<>> \/ Len(parts) > 2
         THEN imp_pc' = "error" /\ UNCHANGED <<imp_id, imp_project>>
         ELSE /\ imp_project' = IF Len(parts) = 2 THEN parts[2]
                                                 ELSE imp_project
              /\ imp_id' = parts[1]
              /\ imp_pc' = "ok"
  /\ UNCHANGED <<imp_arg, zoneVars, resourceVars>>

NextImport ==
  \/ ImportResourceState
  \/ StateContext

SpecImport == Init /\ [][NextImport]_vars

\* ------------------------------------- the server and kubernetes resources
\* what uuid_count (server) or account (kubernetes) can be in the config
Vals == {"", "u1", "u2"}

\* (mutant) Delete leaves the ID
AfterDelete_keep(id) == id

\* d.SetId("") of resourceServerDelete and resourceKubernetesDelete
AfterDelete(id) == ""

\* Create up to its HTTP request: d.SetId, then http.Get is issued
CreateSetId(k) ==
  /\ ~exited /\ r_pc[k] = "idle"
  /\ \E v \in Vals :
       /\ r_cfg' = [r_cfg EXCEPT ![k] = v]
       /\ r_id' = [r_id EXCEPT ![k] = v]
  /\ r_pc' = [r_pc EXCEPT ![k] = "http"]
  /\ r_live' = [r_live EXCEPT ![k] = TRUE]
  /\ UNCHANGED <<exited, r_last, r_ret, zoneVars, importVars>>

\* http.Get returns: on an error log.Fatal ends the process, otherwise
\* Create returns what Read returns
CreateHttpGet(k) ==
  /\ ~exited /\ r_pc[k] = "http"
  /\ \E ok \in BOOLEAN :
       IF ok
       THEN /\ r_pc' = [r_pc EXCEPT ![k] = "idle"]
            /\ r_last' = [r_last EXCEPT ![k] = "create"]
            /\ r_ret' = [r_ret EXCEPT ![k] = "none"]
            /\ UNCHANGED exited
       ELSE /\ exited' = TRUE
            /\ UNCHANGED <<r_pc, r_last, r_ret>>
  /\ UNCHANGED <<r_id, r_cfg, r_live, zoneVars, importVars>>

\* Read returns nil; Update returns what Read returns
ReadOrUpdate(k, o) ==
  /\ ~exited /\ r_pc[k] = "idle"
  /\ r_last' = [r_last EXCEPT ![k] = o]
  /\ r_ret' = [r_ret EXCEPT ![k] = "none"]
  /\ UNCHANGED <<exited, r_pc, r_id, r_cfg, r_live, zoneVars, importVars>>

\* Delete clears the ID and returns nil
DeleteClearsId(k) ==
  /\ ~exited /\ r_pc[k] = "idle"
  /\ r_id' = [r_id EXCEPT ![k] = AfterDelete(r_id[k])]
  /\ r_live' = [r_live EXCEPT ![k] = FALSE]
  /\ r_last' = [r_last EXCEPT ![k] = "delete"]
  /\ r_ret' = [r_ret EXCEPT ![k] = "none"]
  /\ UNCHANGED <<exited, r_pc, r_cfg, zoneVars, importVars>>

resourceServerCreate == CreateSetId("server")
resourceServerCreate_httpGet == CreateHttpGet("server")
resourceServerRead == ReadOrUpdate("server", "read")
resourceServerUpdate == ReadOrUpdate("server", "update")
resourceServerDelete == DeleteClearsId("server")
resourceKubernetesCreate == CreateSetId("kubernetes")
resourceKubernetesCreate_httpGet == CreateHttpGet("kubernetes")
resourceKubernetesRead == ReadOrUpdate("kubernetes", "read")
resourceKubernetesUpdate == ReadOrUpdate("kubernetes", "update")
resourceKubernetesDelete == DeleteClearsId("kubernetes")

NextServer ==
  \/ resourceServerCreate
  \/ resourceServerCreate_httpGet
  \/ resourceServerRead
  \/ resourceServerUpdate
  \/ resourceServerDelete
  \/ resourceKubernetesCreate
  \/ resourceKubernetesCreate_httpGet
  \/ resourceKubernetesRead
  \/ resourceKubernetesUpdate
  \/ resourceKubernetesDelete

SpecServer == Init /\ [][NextServer]_vars

\* ================================================================== claims
\* the first client call succeeded and the handler went on to poll
Polled == mutCalls = 1 /\ callErr = "none" /\ ~skip

\* C1: when zones.Create succeeded and the polling failed, Create returns a
\* failure diagnostic and the ID returned by zones.Create is set on the
\* resource data at the moment of return.
C1_PartialCreateKeepsId ==
  (op = "create" /\ pc = "done" /\ Polled /\ reads = 0 /\ ~ctxDone)
    => (diag # "none" /\ n_id # "" /\ d_id = n_id)

\* C2: an update request in which no tracked field changed never calls
\* zones.Update and never polls, whatever disable_status_check is; it does
\* one Read (when a client could be built) and returns what Read returns.
C2_NoopUpdate ==
  (op = "update" /\ ~(chg \cap Tracked # {}))
    => /\ mutCalls = 0 /\ pollReads = 0
       /\ stateConf = NoWait /\ retryConf = NoWait /\ now = 0
       /\ reads <= 1
       /\ pc = "done" => /\ diag \in {"none", "read", "client", "auth"}
                         /\ reads = (IF setup = "ok" THEN 1 ELSE 0)

C2_Witness ==
  /\ op = "update" /\ chg = {} /\ ~skip /\ pc = "done"
  /\ reads = 1 /\ mutCalls = 0 /\ diag = "none"

\* C3: when zones.Delete answers NotFound, Delete returns no diagnostic and
\* does not poll; this is so at every one of successive Deletes of an
\* absent zone.
C3_DeleteAbsent ==
  (op = "delete" /\ callErr = "E404")
    => /\ pc = "done" /\ diag = "none"
       /\ mutCalls = 1 /\ pollReads = 0 /\ reads = 0
       /\ stateConf = NoWait /\ now = 0

C3_Witness ==
  /\ prevAbsentDelete
  /\ op = "delete" /\ pc = "done" /\ callErr = "E404" /\ diag = "none" /\ ~skip

\* C4 (as stated): every successful return of Create or Update happens only
\* after the zone was observed ACTIVE, every successful return of Delete
\* only after DELETED or absence was observed.
C4_Original ==
  (pc = "done" /\ diag = "none")
    => /\ op \in {"create", "update"} => sawActive
       /\ op = "delete" => (sawGone \/ callErr = "E404")

\* C4 (amended): with disable_status_check false, Create and an Update that
\* changed a tracked field go on to their final Read, and return success,
\* only after a polling Read observed ACTIVE; Delete returns success only
\* after a polling Read found the zone gone or zones.Delete answered
\* NotFound.
C4_Amended ==
  /\ (op \in {"create", "update"} /\ Polled /\ diag = "none"
        /\ pc \in {"read", "done"}) => sawActive
  /\ (op = "delete" /\ ~skip /\ setup = "ok" /\ pc = "done" /\ diag = "none")
       => (sawGone \/ callErr = "E404")

C4_Witness ==
  /\ op = "create" /\ pc = "done" /\ diag = "none" /\ Polled /\ sawActive
  /\ pollReads >= 2

\* C5: with disable_status_check true a handler makes one mutating call,
\* never polls and never waits; Create and a changing Update then do one
\* Read (none when the call failed), Delete does none; Create sets the ID
\* before that Read.
C5_SkipStatusCheck ==
  (skip /\ op \in {"create", "update", "delete"})
    => /\ pollReads = 0 /\ stateConf = NoWait /\ retryConf = NoWait
       /\ now = 0 /\ mutCalls <= 1
       /\ (op = "create" /\ pc = "read")
            => (mutCalls = 1 /\ reads = 0 /\ n_id # "" /\ d_id = n_id)
       /\ (pc = "done" /\ setup = "ok" /\ (op = "update" => chg # {}))
            => /\ mutCalls = 1
               /\ reads = (IF op = "delete" \/ callErr # "none" THEN 0 ELSE 1)

C5_Witness ==
  /\ skip /\ op = "update" /\ chg = {"ttl"} /\ pc = "done"
  /\ mutCalls = 1 /\ reads = 1 /\ diag = "none"

\* C6: while Create, Update or Delete polls, a retryable Read error
\* (conflict, rate-limited) keeps the handler polling, so it never is what
\* the handler fails with before its timeout; a non-retryable one fails the
\* handler with no further Read.
C6_RetryClassification ==
  /\ (pc = "done" /\ diag = "wait" /\ checkForRetryableError(cause))
       => (now >= timeout \/ ctxDone)
  /\ ~readAfterFatal
  /\ (fatalSeen /\ pc = "done") => diag = "wait"

\* C7 (as stated): the first client call is made once; on any error from it
\* the handler returns a failure at once, with no Read, no polling and no
\* use of the Retry Classifier.
C7_Original ==
  /\ mutCalls <= 1
  /\ callErr # "none"
       => /\ pc = "done" /\ diag # "none"
          /\ reads = 0 /\ pollReads = 0 /\ classified = 0
          /\ stateConf = NoWait /\ retryConf = NoWait /\ now = 0

\* C7 (amended): the first client call is made once; on any error from it
\* the handler returns at once, with no Read, no polling and no use of the
\* Retry Classifier; it returns a failure, except that NotFound from
\* zones.Delete returns success.
C7_Amended ==
  /\ mutCalls <= 1
  /\ callErr # "none"
       => /\ pc = "done" /\ mutCalls = 1
          /\ diag = (IF op = "delete" /\ callErr = "E404" THEN "none" ELSE op)
          /\ cause = (IF op = "delete" /\ callErr = "E404" THEN "none"
                      ELSE callErr)
          /\ reads = 0 /\ pollReads = 0 /\ classified = 0
          /\ stateConf = NoWait /\ retryConf = NoWait /\ now = 0

C7_Witness ==
  /\ op = "update" /\ ~skip /\ pc = "done" /\ callErr = "E409"
  /\ diag = "update" /\ mutCalls = 1 /\ reads = 0 /\ pollReads = 0

\* C8: when every polling Read answered a pending state or a retryable
\* error, the handler that returns, returns a timeout failure.
C8_StuckBackendTimesOut ==
  (pc = "done" /\ op \in {"create", "update", "delete"} /\ Polled
     /\ onlyPending /\ ~ctxDone)
    => (diag = "wait" /\ cause = "timeout")

\* C9: counted from the start of polling, no polling Read is issued after
\* the configured timeout has elapsed, whatever the Retry Classifier decided
\* (here: in the calls whose context is not cancelled).
C9_NoReadAfterDeadline ==
  ~ctxDone => lastPollAt <= timeout

\* C10: a handler whose context is cancelled while it polls stops polling
\* and returns a cancellation error: once it has taken the cancellation it
\* is at its error check or has returned, what it returns is the
\* cancellation error, and no polling Read is issued later than the moment
\* it took the cancellation.
C10_Cancellation ==
  ctxSeenAt >= 0
    => /\ pc \in {"check", "format", "done"}
       /\ pc = "done" => (diag = "wait" /\ cause = "cancelled")
       /\ lastPollAt <= ctxSeenAt

\* C11: the client calls of one handler call are strictly sequential: no
\* polling Read before the first client call has succeeded, no Read in
\* flight while the next wait is being prepared, and no polling Read issued
\* later than the handler's return.
C11_Sequential ==
  /\ pollReads > 0 => (mutCalls = 1 /\ callErr = "none")
  /\ ~(stateConf.g = "refresh" /\ retryConf.g \in {"delay", "wait"}
        /\ ~retryConf.cancel)
  /\ returnedAt >= 0 => lastPollAt <= returnedAt

\* C12: whenever a handler returns, it returns exactly one of a descriptor
\* (the record with its ID set, from Create, Read or Update) and a
\* diagnostic: never both and never neither, also when a Read finds the zone
\* gone and when Delete succeeds.
C12_ExactlyOne ==
  pc = "done"
    => ~((diag # "none") <=> (diag = "none" /\ op # "delete" /\ d_id # ""))

\* a polled Create has returned its record, its wait has ended with success
\* (the err tested at line 179 is the nil the wait returned) and no polling
\* Read answered an error that restarts the wait
CreatedAfterPendings ==
  /\ op = "create" /\ pc = "done" /\ Polled
  /\ diag = "none" /\ d_id # "" /\ d_id = n_id
  /\ h_err.t = "none" /\ ~retrySeen

\* C13 (as stated): a polled Create that sees k times PENDING and then
\* ACTIVE returns its record after exactly k + 1 zones.Get calls in total.
C13_Original ==
  CreatedAfterPendings => pollReads + reads = pendings + 1

\* C13 (amended): such a Create has seen k times PENDING and then ACTIVE,
\* and returns after exactly k + 1 polling Reads and the one Read that
\* refreshes the record, k + 2 zones.Get calls in total.
C13_Amended ==
  CreatedAfterPendings
    => /\ sawActive
       /\ pollReads = pendings + 1
       /\ reads = 1
       /\ pollReads + reads = pendings + 2

\* PENDING, PENDING, ACTIVE, then the Read of the record
C13_Witness ==
  CreatedAfterPendings /\ sawActive /\ pendings = 2 /\ pollReads + reads = 4

\* C14: a handler whose timeout is shorter than the initial delay of its
\* wait never starts the wait: it issues no polling Read and it does not end
\* as a wait that timed out.
C14_ShortTimeoutRejected ==
  timeout < Delay
    => /\ stateConf.m = "off" /\ retryConf.m = "off"
       /\ pollReads = 0
       /\ pc = "done" => cause # "timeout"

\* C15: whenever resourceDNSZoneV2Read returns: if zones.Get answered 404,
\* the ID is cleared and no diagnostic is returned (the record is gone, which
\* is no failure); if it answered any other error, or the client could not
\* be set up, a diagnostic is returned and the ID and the attributes are
\* what they were before the Read.
C15_ReadGoneOrFailure ==
  [][(pc = "read" /\ pc' = "done")
       => /\ getErr' = "E404" => (d_id' = "" /\ diag' = "none")
          /\ (getErr' \in ErrCodes \ {"E404"})
               => (diag' = "read" /\ cause' = getErr')
          /\ diag' # "none" => (d_id' = d_id /\ d_attrs' = d_attrs)
          /\ (diag' = "none") <=> (setup = "ok" /\ getErr' \in {"none", "E404"})
    ]_vars

\* a Read of a zone with an ID has found it gone
C15_Witness ==
  /\ op = "read" /\ pc = "done" /\ getErr = "E404"
  /\ d_id = "" /\ diag = "none"

\* C16: an Update and a Create that poll with the same timeout against the
\* same sequence of answers of the backend (what one of them consumed is the
\* beginning of what the other consumed) end their polling alike: both
\* succeed or both fail, after the same number of polling Reads.
C16_UpdatePollsAsCreate ==
  (/\ pairing /\ op = "create" /\ pc = "done" /\ Polled
   /\ prev.op = "update" /\ prev.timeout = timeout
   /\ IsPrefix(prev.trace, trace) \/ IsPrefix(trace, prev.trace))
    => /\ prev.ok = (diag # "wait")
       /\ prev.n = pollReads

\* C17: a Delete that polls (zones.Delete succeeded, status check enabled)
\* returns without a diagnostic only after a polling Read found the zone
\* DELETED; ACTIVE and PENDING answers alone never end it before the timeout
\* or a cancellation; any other state and any Read error end it with a
\* failure; and it never calls resourceDNSZoneV2Read.
C17_DeletePolling ==
  (op = "delete" /\ Polled)
    => /\ reads = 0
       /\ pc \in {"start", "poll", "done"}
       /\ (pc = "done" /\ diag = "none") => sawGone
       /\ (pc = "done" /\ ~sawGone) => diag = "wait"
       /\ (pc = "done" /\ ~sawGone /\ ~fatalSeen /\ ~retrySeen)
            => cause \in {"timeout", "cancelled"}
       /\ (pc = "done" /\ (fatalSeen \/ retrySeen)) => diag = "wait"

\* a Delete polled through PENDING to DELETED and returned success
C17_Witness ==
  /\ op = "delete" /\ Polled /\ pc = "done" /\ diag = "none"
  /\ sawGone /\ pendings >= 1 /\ pollReads >= 2 /\ reads = 0

\* C18: a diagnostic that Create, Update or Delete returns when the ID of
\* the zone is known (the ID of the record, in Create the ID that
\* zones.Create returned) names that ID.
C18_DiagnosticCarriesId ==
  (pc = "done" /\ diag # "none" /\ op \in {"create", "update", "delete"})
    => LET known == IF op = "create" THEN n_id ELSE d_id
       IN  known # "" => diagId = known

\* the colons of an import string, and its parts around the first one
Colons(s) == {i \in 1..Len(s) : s[i] = ":"}
IdPart(s) ==
  IF Colons(s) = {} THEN s ELSE SubSeq(s, 1, Min(Colons(s)) - 1)
ProjectPart(s) ==
  IF Colons(s) = {} THEN <<>> ELSE SubSeq(s, Min(Colons(s)) + 1, Len(s))

\* C19: the importer accepts exactly the strings <id> and <id>:<project_id>
\* with non-empty parts and at most one colon; a rejected string leaves the
\* ID and project_id of the record as they were; an accepted one sets the
\* ID to the part before the colon and project_id, only if there is a colon,
\* to the part after it.
C19_ImportParsing ==
  imp_pc \in {"ok", "error"}
    => /\ (imp_pc = "ok")
            <=> /\ IdPart(imp_arg) # <<>>
                /\ Cardinality(Colons(imp_arg)) <= 1
                /\ Colons(imp_arg) # {} => ProjectPart(imp_arg) # <<>>
       /\ imp_pc = "error" => (imp_id = imp_arg /\ imp_project = <<>>)
       /\ imp_pc = "ok"
            => /\ imp_id = IdPart(imp_arg)
               /\ imp_project = ProjectPart(imp_arg)

\* what C20 says of one resource apart from when the ID is set: the ID is
\* assigned when the HTTP request of Create is issued, the handlers return
\* no diagnostic, and after a Delete the ID is empty
HandlersOf(k) ==
  /\ r_pc[k] = "http" => r_id[k] = r_cfg[k]
  /\ r_ret[k] = "none"
  /\ (r_last[k] = "delete" /\ r_pc[k] = "idle") => r_id[k] = ""

\* C20 (as stated): for the server and the kubernetes resource, Create
\* assigns the ID before its HTTP request, Read and Update leave the ID and
\* return no diagnostic, Delete clears the ID and returns none; so the ID is
\* set exactly from a Create until the next Delete.
C20_Original ==
  \A k \in Kinds :
    /\ HandlersOf(k)
    /\ (r_id[k] # "") <=> r_live[k]

\* C20 (amended): ...; so from a Create until the next Delete the ID is the
\* uuid_count (account) given to that Create, which may be empty, and
\* outside of that it is empty.
C20_Amended ==
  \A k \in Kinds :
    /\ HandlersOf(k)
    /\ r_id[k] = IF r_live[k] THEN r_cfg[k] ELSE ""

\* a server created and updated, a kubernetes resource created and deleted
C20_Witness ==
  /\ r_pc["server"] = "idle" /\ r_pc["kubernetes"] = "idle"
  /\ r_last["server"] = "update" /\ r_id["server"] = "u1"
  /\ r_last["kubernetes"] = "delete" /\ r_cfg["kubernetes"] = "u2"
  /\ r_id["kubernetes"] = ""

====
